---- MODULE Spec2Model ----
(***************************************************************************)
(* Merchant Risk Review Workbench (Merchant_Risk_Model_App.py).            *)
(*                                                                         *)
(* The state is the two warehouse tables, the clock of the warehouse, and  *)
(* for every running instance of the page its two st.cache_data memos, the *)
(* pending st.rerun() and the message it shows.  A run of the page script  *)
(* is one step for each of its reads of the warehouse; a submission, whose *)
(* run reads once and writes, is one step.                                 *)
(*                                                                         *)
(* The text of the MERGE statement is a sequence of characters: the        *)
(* f-string builds it, text() looks for bind parameters in it and removes  *)
(* the backslash of an escaped colon, and the warehouse reads what is      *)
(* sent, string constants, comments and column aliases, to get the row of  *)
(* the USING subquery.  A timestamp is a number of ticks, TicksPerDay      *)
(* ticks to the day; a DATE is the tick of its midnight.  WEEK_START_DATE  *)
(* is a day number (day 0 is a Monday).  A nullable column holds <<>>      *)
(* (NULL) or <<v>>.                                                        *)
(***************************************************************************)
EXTENDS Integers, Sequences, FiniteSets, TLC

\* ------------------------------------------------------------ bounds
TicksPerDay == 2
MaxMerges == 2
MaxInstants == 2

\* ------------------------------------------------------------ program constants
ExpiryDays == 90
TtlSeconds == 600
SecondsPerDay == 86400
DaysPerWeek == 7

\* ------------------------------------------------------------ values
ACME == <<"A", "c", "m", "e">>
OBRIEN == <<"O", "'", "B">>
RBD == <<"R", "\\", "D">>
Merchants == {ACME, OBRIEN, RBD}

Sessions == {"s1", "s2"}

\* CURRENT_USER() of the connection each instance opens (line 27).
SessionUser(s) == IF s = "s1" THEN <<"a", "n", "n">> ELSE <<"d", "'", "a">>

Benign == "Reviewed - Benign"
Blocked == "Reviewed - Blocked"
Pending == "Pending Investigation"
\* The options of the "Set Status:" selectbox (line 125).
StatusOptions == {Benign, Blocked, Pending}
\* index=None: the selectbox returns None until an outcome is chosen.
NoStatus == ""
\* The STATUS 'None', and a STATUS that is none of the above.
NoneStatus == "None"
OtherStatus == "other"

\* Notes a reviewer enters (free text, line 127).
NotesNone == <<>>
\* it's :ab:
NotesQuote == <<"i", "t", "'", "s", " ", ":", "a", "b", ":">>
\* a\b\0\\:t
NotesBackslash == <<"a", "\\", "b", "\\", "0", "\\", "\\", ":", "t">>
\* a\' AS NOTES, --
NotesClosing == <<"a", "\\", "'", " ", "A", "S", " ", "N", "O", "T", "E", "S", ",", " ", "-", "-">>
\* x\
NotesBackslashEnd == <<"x", "\\">>
\* :t
NotesBind == <<":", "t">>

\* What a reviewer enters in the form: the outcome and the notes.
FormInputs ==
    {<<Benign, NotesNone>>, <<Blocked, NotesQuote>>, <<Pending, NotesBackslash>>,
     <<Benign, NotesClosing>>, <<Blocked, NotesBackslashEnd>>, <<Benign, NotesBind>>}

NULL == <<>>
NotNull(v) == <<v>>

SeqRange(q) == {q[i] : i \in 1..Len(q)}

\* ------------------------------------------------------------ SQL text
\* str.replace("'", "''") (lines 29, 139, 141).
RECURSIVE Escape(_)
Escape(str) ==
    IF str = <<>> THEN <<>>
    ELSE IF Head(str) = "'" THEN <<"'", "'">> \o Escape(Tail(str))
    ELSE <<Head(str)>> \o Escape(Tail(str))

\* '<body>' as it stands in the text of the statement.
Quoted(body) == <<"'">> \o body \o <<"'">>

LowerLetters ==
    <<"a", "b", "c", "d", "e", "f", "g", "h", "i", "j", "k", "l", "m",
      "n", "o", "p", "q", "r", "s", "t", "u", "v", "w", "x", "y", "z">>
UpperLetters ==
    <<"A", "B", "C", "D", "E", "F", "G", "H", "I", "J", "K", "L", "M",
      "N", "O", "P", "Q", "R", "S", "T", "U", "V", "W", "X", "Y", "Z">>
DigitChars == <<"0", "1", "2", "3", "4", "5", "6", "7", "8", "9">>

\* The characters of a name (\w), and those of [\w\$].
WordChars ==
    SeqRange(LowerLetters) \cup SeqRange(UpperLetters) \cup SeqRange(DigitChars)
        \cup {"_"}
NameChars == WordChars \cup {"$"}

\* The letter in the other case.
ToLower ==
    [c \in SeqRange(UpperLetters) |->
        LowerLetters[CHOOSE i \in DOMAIN UpperLetters : UpperLetters[i] = c]]
ToUpper ==
    [c \in SeqRange(LowerLetters) |->
        UpperLetters[CHOOSE i \in DOMAIN LowerLetters : LowerLetters[i] = c]]
Lower(c) == IF c \in DOMAIN ToLower THEN ToLower[c] ELSE c
Upper(c) == IF c \in DOMAIN ToUpper THEN ToUpper[c] ELSE c
UpperText(txt) == [i \in DOMAIN txt |-> Upper(txt[i])]

\* The least index of a set of indices.
Least(indices) == CHOOSE j \in indices : \A k \in indices : j <= k
\* The least index from i on whose character is in the class, and the least
\* whose character is not: the index after the text when there is none.
FirstIn(txt, i, class) ==
    Least({j \in i..Len(txt) : txt[j] \in class} \cup {Len(txt) + 1})
RunEnd(txt, i, class) ==
    Least({j \in i..Len(txt) : txt[j] \notin class} \cup {Len(txt) + 1})

\* str() of a whole number in an f-string, and the number a run of digits
\* stands for.
RECURSIVE Digits(_)
Digits(n) ==
    IF n < 10 THEN <<DigitChars[n + 1]>>
    ELSE Digits(n \div 10) \o <<DigitChars[(n % 10) + 1]>>
DigitValue(c) == (CHOOSE i \in DOMAIN DigitChars : DigitChars[i] = c) - 1
IsNumber(txt) == txt # <<>> /\ \A i \in DOMAIN txt : txt[i] \in SeqRange(DigitChars)
RECURSIVE Number(_)
Number(txt) ==
    IF Len(txt) = 1 THEN DigitValue(txt[1])
    ELSE 10 * Number(SubSeq(txt, 1, Len(txt) - 1)) + DigitValue(txt[Len(txt)])

\* The bind parameters of text() (line 135) that the compilation of the
\* statement renders, pattern (?<![:\w\$\x5c]):([\w\$]+)(?![:\w\$]) -- a
\* colon that does not follow a colon, a character of [\w\$] or a backslash,
\* then the whole run of [\w\$], which is not empty and which no colon
\* follows.  (A name that text() itself finds before a colon, as in :ab:,
\* is not rendered.)
BindParamAt(txt, i) ==
    /\ txt[i] = ":"
    /\ i = 1 \/ txt[i - 1] \notin (NameChars \cup {":", "\\"})
    /\ LET after == RunEnd(txt, i + 1, NameChars)
       IN  /\ after > i + 1
           /\ after > Len(txt) \/ txt[after] # ":"
\* con.execute has no value for a bind parameter that is rendered.
HasBindParam(txt) == \E i \in 1..Len(txt) : BindParamAt(txt, i)

\* The compilation of text() removes the backslash of an escaped colon,
\* pattern \x5c(:[\w\$]*)(?![:\w\$]) -- a backslash, a colon and the whole
\* run of [\w\$] after it, when no colon follows the run.
ColonEscapeAt(txt, i) ==
    /\ txt[i] = "\\"
    /\ i + 1 <= Len(txt)
    /\ txt[i + 1] = ":"
    /\ LET after == RunEnd(txt, i + 2, NameChars)
       IN  after > Len(txt) \/ txt[after] # ":"
\* The text as it is sent.  (No match of the pattern holds the backslash
\* of another, so every match is replaced.)
Unescaped(txt) ==
    LET kept == SelectSeq([i \in DOMAIN txt |-> <<i, txt[i]>>],
                          LAMBDA at : ~ColonEscapeAt(txt, at[1]))
    IN  [k \in DOMAIN kept |-> kept[k][2]]

\* The characters a backslash sequence of a single-quoted string constant
\* stands for: \b, \f, \n, \r, \t and \0 name control characters; before
\* any other character (a backslash and a quote among them) the backslash
\* is dropped.  The sequences of several characters (\ooo, \xhh, \uhhhh)
\* are in no input.
BS == "BACKSPACE"
FF == "FORM FEED"
LF == "LINE FEED"
CR == "CARRIAGE RETURN"
TAB == "TAB"
NUL == "NUL"
EscapeSequence(c) ==
    CASE c = "b" -> BS [] c = "f" -> FF [] c = "n" -> LF [] c = "r" -> CR
      [] c = "t" -> TAB [] c = "0" -> NUL [] OTHER -> c

\* What a reading of the statement gives: nothing when it raises, or its
\* value.
Raises == <<>>
Returns(v) == <<v>>
Prepend(x, rest) == IF rest = Raises THEN Raises ELSE Returns(<<x>> \o rest[1])

\* The index of the quote that closes the string constant whose body starts
\* at i, or 0 when the text ends first: a backslash takes the next character
\* with it and a doubled quote stands for a quote.
RECURSIVE ConstantEnd(_, _)
ConstantEnd(txt, i) ==
    LET j == FirstIn(txt, i, {"\\", "'"})
    IN  IF j > Len(txt) THEN 0
        ELSE IF txt[j] = "\\"
             THEN IF j = Len(txt) THEN 0 ELSE ConstantEnd(txt, j + 2)
        ELSE IF j < Len(txt) /\ txt[j + 1] = "'" THEN ConstantEnd(txt, j + 2)
        ELSE j

\* The value of the string constant with this body (the text between its
\* opening quote and the quote that closes it).
RECURSIVE SqlLiteral(_)
SqlLiteral(body) ==
    LET j == FirstIn(body, 1, {"\\", "'"})
    IN  IF j > Len(body) THEN body
        ELSE SubSeq(body, 1, j - 1)
                 \o <<IF body[j] = "\\" THEN EscapeSequence(body[j + 1]) ELSE "'">>
                 \o SqlLiteral(SubSeq(body, j + 2, Len(body)))

\* The index after the line that holds index i, and the index after the
\* block comment whose body starts at i (0 when it is not closed).
LineEnd(txt, i) ==
    LET j == FirstIn(txt, i, {LF})
    IN  IF j > Len(txt) THEN j ELSE j + 1
StartsAt(txt, i, pair) ==
    i < Len(txt) /\ txt[i] = pair[1] /\ txt[i + 1] = pair[2]
BlockEnd(txt, i) ==
    LET ends == {j \in i..Len(txt) : StartsAt(txt, j, <<"*", "/">>)}
    IN  IF ends = {} THEN 0 ELSE Least(ends) + 2

\* The tokens of a select list from index i on: string constants, words
\* (names, keywords and numbers) and commas; blanks and comments (--, //
\* and /* */) separate them.  Text of any other kind (operators, calls,
\* subqueries, quoted names) is in no input and is read as an error.
Blank == {" ", LF, CR, TAB}
Token(kind, txt) == [kind |-> kind, text |-> txt]
RECURSIVE Lex(_, _)
Lex(txt, i) ==
    LET j == RunEnd(txt, i, Blank)
    IN  CASE j > Len(txt) -> Returns(<<>>)
          [] StartsAt(txt, j, <<"-", "-">>) \/ StartsAt(txt, j, <<"/", "/">>) ->
                Lex(txt, LineEnd(txt, j))
          [] StartsAt(txt, j, <<"/", "*">>) ->
                IF BlockEnd(txt, j + 2) = 0 THEN Raises
                ELSE Lex(txt, BlockEnd(txt, j + 2))
          [] j <= Len(txt) /\ txt[j] = "," ->
                Prepend(Token(",", <<>>), Lex(txt, j + 1))
          [] j <= Len(txt) /\ txt[j] = "'" ->
                LET end == ConstantEnd(txt, j + 1)
                IN  IF end = 0 THEN Raises
                    ELSE Prepend(Token("constant", SqlLiteral(SubSeq(txt, j + 1, end - 1))),
                                 Lex(txt, end + 1))
          [] j <= Len(txt) /\ txt[j] \in WordChars ->
                LET end == RunEnd(txt, j, WordChars)
                IN  Prepend(Token("word", SubSeq(txt, j, end - 1)), Lex(txt, end))
          [] OTHER -> Raises

AS == <<"A", "S">>
IsWord(toks, j) == j <= Len(toks) /\ toks[j].kind = "word"
IsAs(toks, j) == IsWord(toks, j) /\ UpperText(toks[j].text) = AS

\* The items of the select list that starts at token j: a value, then its
\* alias with or without AS, or no alias; commas between the items.  A name
\* that is not quoted is read in upper case.
RECURSIVE SelectItems(_, _)
SelectItems(toks, j) ==
    IF j > Len(toks) \/ toks[j].kind = "," THEN Raises
    ELSE LET aliasAt == IF IsAs(toks, j + 1) THEN j + 2 ELSE j + 1
             named == IsWord(toks, aliasAt)
             next == IF named THEN aliasAt + 1 ELSE aliasAt
             item == [value |-> toks[j],
                      alias |-> IF named THEN UpperText(toks[aliasAt].text) ELSE <<>>]
         IN  IF IsAs(toks, j + 1) /\ ~named THEN Raises
             ELSE IF next > Len(toks) THEN Returns(<<item>>)
             ELSE IF toks[next].kind = "," THEN Prepend(item, SelectItems(toks, next + 1))
             ELSE Raises

\* HIGH_RISK_MERCHANT::STRING ILIKE 'true' (line 83): a match of the whole
\* string, letters compared without case.
ILike(str, pattern) ==
    /\ Len(str) = Len(pattern)
    /\ \A i \in 1..Len(str) : Lower(str[i]) = Lower(pattern[i])
TrueText == <<"t", "r", "u", "e">>
\* Mutant: LIKE in place of ILIKE, the match keeps the case.
IsHighRiskCaseSensitive(s) == s.HIGH_RISK_MERCHANT = TrueText
IsHighRisk(s) == ILike(s.HIGH_RISK_MERCHANT, TrueText)

\* ------------------------------------------------------------ dates
\* CURRENT_DATE(): the midnight that starts the day of the clock.
CurrentDate(clock) == (clock \div TicksPerDay) * TicksPerDay
\* DATEADD(day, n, d)
DateAddDays(n, d) == d + n * TicksPerDay
\* DATE_TRUNC('week', d)::DATE, weeks starting on Monday.
DateTruncWeek(d) == d - (d % DaysPerWeek)


\* ------------------------------------------------------------ tables
\* A row of MERCHANT_RISK_SCORES.
RiskRow(m, score, week, flag) ==
    [MERCHANT_DESCRIPTION |-> m, RISK_SCORE |-> score, REASON_CODES |-> "velocity",
     WEEK_START_DATE |-> week, HIGH_RISK_MERCHANT |-> flag]

\* A row of MERCHANT_REVIEW_STATUS.
ReviewRow(m, week, status, notes, reviewer, score, date) ==
    [MERCHANT_DESCRIPTION |-> m, WEEK_START_DATE |-> week, STATUS |-> status,
     NOTES |-> notes, REVIEWER |-> reviewer, RISK_SCORE |-> score,
     REVIEW_DATE |-> date]

FlagTrue == <<"t", "r", "u", "e">>
FlagTRUE == <<"T", "R", "U", "E">>
FlagFalse == <<"f", "a", "l", "s", "e">>

\* A row an earlier run of the page left in MERCHANT_REVIEW_STATUS for the
\* week before the scoring weeks: written by the insert branch alone
\* (REVIEW_DATE NULL) or updated since (REVIEW_DATE the time of the update,
\* so many days before the start).
PriorRow(status, date) == ReviewRow(ACME, 0, status, <<>>, SessionUser("s2"), 40, date)
DaysAgo(n) == NotNull(DateAddDays(-n, 0))
\* The same for the scoring week 7.
PriorPending7 == ReviewRow(ACME, 7, Pending, <<"o", "k">>, SessionUser("s2"), 91, NULL)

\* The contents of MERCHANT_RISK_SCORES the runs start from: at most one row
\* per merchant and week.
AcmeAlone == {RiskRow(ACME, 91, 7, FlagTrue), RiskRow(OBRIEN, 50, 7, FlagFalse)}
AcmeTwoWeeks == {RiskRow(ACME, 80, 7, FlagTrue), RiskRow(ACME, 91, 15, FlagTrue)}
OBrienAlone == {RiskRow(ACME, 60, 7, FlagFalse), RiskRow(OBRIEN, 70, 15, FlagTRUE)}
BackslashAlone == {RiskRow(RBD, 70, 7, FlagTrue)}

\* The two tables when the instances start.
InitialTables ==
    {<<AcmeAlone, prior>> : prior \in
        {{}, {PriorPending7},
         {PriorRow(Benign, NULL)}, {PriorRow(Benign, DaysAgo(10))},
         {PriorRow(Blocked, DaysAgo(10))}}}
    \cup {<<AcmeTwoWeeks, {PriorRow(Pending, NULL)}>>}
    \cup {<<OBrienAlone, {PriorRow(Pending, NULL)}>>}
    \cup {<<BackslashAlone, {}>>}

\* ------------------------------------------------------------ load_monitoring_data
\* The place of a STATUS in ascending order; a text that is no outcome
\* is in no row.
StatusRank(st) ==
    CASE st = NoneStatus -> 0 [] st = Pending -> 1 [] st = Benign -> 2
      [] st = Blocked -> 3 [] OTHER -> 4

\* GROUP BY 1, 2 with COUNT(*)
MonitoringGroups(review) ==
    {[REVIEW_WEEK |-> g[1], STATUS |-> g[2],
      MERCHANT_COUNT |-> Cardinality({r \in review :
          DateTruncWeek(r.WEEK_START_DATE) = g[1] /\ r.STATUS = g[2]})] :
        g \in {<<DateTruncWeek(r.WEEK_START_DATE), r.STATUS>> : r \in review}}

\* ORDER BY 1 DESC, 2
MonitoringBefore(g, h) ==
    \/ g.REVIEW_WEEK > h.REVIEW_WEEK
    \/ g.REVIEW_WEEK = h.REVIEW_WEEK /\ StatusRank(g.STATUS) <= StatusRank(h.STATUS)

RECURSIVE MonitoringOrder(_)
MonitoringOrder(groups) ==
    IF groups = {} THEN <<>>
    ELSE LET first == CHOOSE g \in groups : \A h \in groups : MonitoringBefore(g, h)
         IN  <<first>> \o MonitoringOrder(groups \ {first})

load_monitoring_data(review) == MonitoringOrder(MonitoringGroups(review))

\* ------------------------------------------------------------ load_review_queue
ReviewsOf(review, m) == {r \in review : r.MERCHANT_DESCRIPTION = m}
ReviewedMerchants(review) == {r.MERCHANT_DESCRIPTION : r \in review}

\* The rows ROW_NUMBER() OVER(PARTITION BY MERCHANT_DESCRIPTION ORDER BY
\* REVIEW_DATE DESC) may number 1: descending order puts NULL first, and the
\* order among equal keys is not determined.
FirstByReviewDateDesc(rows) ==
    IF \E r \in rows : r.REVIEW_DATE = NULL
    THEN {r \in rows : r.REVIEW_DATE = NULL}
    ELSE {r \in rows : \A o \in rows : r.REVIEW_DATE[1] >= o.REVIEW_DATE[1]}

\* The possible values of the latest_reviews CTE: one row (rn = 1) for
\* every merchant that has review rows.
latest_reviews(review) ==
    {f \in [ReviewedMerchants(review) -> review] :
        \A m \in ReviewedMerchants(review) :
            f[m] \in FirstByReviewDateDesc(ReviewsOf(review, m))}

\* The WHERE clause on a risk row s and its LEFT JOIN partner r (<<>> when
\* the merchant has no review row); a comparison with NULL is not true.
QueueFilter(s, r, clock) ==
    /\ IsHighRisk(s)
    /\ \/ r = <<>>
       \/ /\ r # <<>>
          /\ r[1].STATUS = Benign
          /\ r[1].REVIEW_DATE # NULL
          /\ r[1].REVIEW_DATE[1] <= DateAddDays(-ExpiryDays, CurrentDate(clock))
       \/ /\ r # <<>>
          /\ r[1].STATUS = Pending

\* SELECT s.MERCHANT_DESCRIPTION, s.RISK_SCORE, s.REASON_CODES, s.WEEK_START_DATE
QueueColumns(s) ==
    [MERCHANT_DESCRIPTION |-> s.MERCHANT_DESCRIPTION, RISK_SCORE |-> s.RISK_SCORE,
     REASON_CODES |-> s.REASON_CODES, WEEK_START_DATE |-> s.WEEK_START_DATE]

JoinPartner(s, latest) ==
    IF s.MERCHANT_DESCRIPTION \in DOMAIN latest
    THEN <<latest[s.MERCHANT_DESCRIPTION]>> ELSE <<>>

QueueRows(risk, latest, clock) ==
    {QueueColumns(s) : s \in {x \in risk : QueueFilter(x, JoinPartner(x, latest), clock)}}

\* ORDER BY s.RISK_SCORE DESC: every order of the rows with no score rising.
RECURSIVE RiskScoreDesc(_)
RiskScoreDesc(rows) ==
    IF rows = {} THEN {<<>>}
    ELSE UNION {{<<r>> \o rest : rest \in RiskScoreDesc(rows \ {r})} :
                  r \in {x \in rows : \A y \in rows : x.RISK_SCORE >= y.RISK_SCORE}}

\* The data frames load_review_queue() can return on these tables at this time.
load_review_queue(risk, review, clock) ==
    UNION {RiskScoreDesc(QueueRows(risk, latest, clock)) : latest \in latest_reviews(review)}

\* ------------------------------------------------------------ the review form

\* review_df['MERCHANT_DESCRIPTION'].unique()
QueueMerchants(df) == {row.MERCHANT_DESCRIPTION : row \in SeqRange(df)}

\* review_df[review_df['MERCHANT_DESCRIPTION'] == selected_merchant].iloc[0]
merchant_details(df, selected) ==
    df[CHOOSE i \in 1..Len(df) :
         /\ df[i].MERCHANT_DESCRIPTION = selected
         /\ \A j \in 1..(i - 1) : df[j].MERCHANT_DESCRIPTION # selected]

\* The text of merge_sql from the select list of the USING subquery to its
\* end (lines 139-144): the text before and after it holds no quote, colon
\* or comment and is the same in every call.  The indentation of a line is
\* written as one space.
Col_MERCHANT_DESCRIPTION == <<"M", "E", "R", "C", "H", "A", "N", "T", "_", "D", "E", "S", "C", "R", "I", "P", "T", "I", "O", "N">>
Col_STATUS == <<"S", "T", "A", "T", "U", "S">>
Col_NOTES == <<"N", "O", "T", "E", "S">>
Col_REVIEWER == <<"R", "E", "V", "I", "E", "W", "E", "R">>
Col_RISK_SCORE == <<"R", "I", "S", "K", "_", "S", "C", "O", "R", "E">>
Col_WEEK_START_DATE == <<"W", "E", "E", "K", "_", "S", "T", "A", "R", "T", "_", "D", "A", "T", "E">>
SelectColumns ==
    {Col_MERCHANT_DESCRIPTION, Col_STATUS, Col_NOTES, Col_REVIEWER, Col_RISK_SCORE,
     Col_WEEK_START_DATE}

\* The text of an outcome in the f-string (None is formatted as None), and
\* the STATUS a text is.
NoneText == <<"N", "o", "n", "e">>
StatusText(status) ==
    CASE status = Benign -> <<"R", "e", "v", "i", "e", "w", "e", "d", " ", "-", " ", "B", "e", "n", "i", "g", "n">>
      [] status = Blocked -> <<"R", "e", "v", "i", "e", "w", "e", "d", " ", "-", " ", "B", "l", "o", "c", "k", "e", "d">>
      [] status = Pending -> <<"P", "e", "n", "d", "i", "n", "g", " ", "I", "n", "v", "e", "s", "t", "i", "g", "a", "t", "i", "o", "n">>
      [] status = NoStatus -> NoneText
StatusOf(txt) ==
    IF \E st \in StatusOptions : StatusText(st) = txt
    THEN CHOOSE st \in StatusOptions : StatusText(st) = txt
    ELSE IF txt = NoneText THEN NoneStatus
    ELSE OtherStatus

NextLine == <<",", LF, " ">>
SelectItem(value, column) == value \o <<" ">> \o AS \o <<" ">> \o column

merge_sql(details, status, notes, current_user) ==
    SelectItem(Quoted(Escape(details.MERCHANT_DESCRIPTION)), Col_MERCHANT_DESCRIPTION)
        \o NextLine \o SelectItem(Quoted(StatusText(status)), Col_STATUS)
        \o NextLine \o SelectItem(Quoted(Escape(notes)), Col_NOTES)
        \o NextLine \o SelectItem(Quoted(current_user), Col_REVIEWER)
        \o NextLine \o SelectItem(Digits(details.RISK_SCORE), Col_RISK_SCORE)
        \o NextLine \o SelectItem(Quoted(Digits(details.WEEK_START_DATE)),
                                  Col_WEEK_START_DATE)

\* The row of the USING subquery that a select list gives.  The statement
\* names each of the six columns of s: one that is missing or stands twice
\* is an error.  A word that stands as a value is a number; the score and
\* the week are read as numbers.
ItemsNamed(items, column) == {i \in DOMAIN items : items[i].alias = column}
ValueOf(items, column) == items[CHOOSE i \in ItemsNamed(items, column) : TRUE].value.text
UsingRow(items) ==
    IF \/ \E column \in SelectColumns : Cardinality(ItemsNamed(items, column)) # 1
       \/ \E i \in DOMAIN items :
              items[i].value.kind = "word" /\ ~IsNumber(items[i].value.text)
    THEN Raises
    ELSE IF \/ ~IsNumber(ValueOf(items, Col_RISK_SCORE))
            \/ ~IsNumber(ValueOf(items, Col_WEEK_START_DATE))
    THEN Raises
    ELSE Returns([MERCHANT_DESCRIPTION |-> ValueOf(items, Col_MERCHANT_DESCRIPTION),
                  STATUS |-> StatusOf(ValueOf(items, Col_STATUS)),
                  NOTES |-> ValueOf(items, Col_NOTES),
                  REVIEWER |-> ValueOf(items, Col_REVIEWER),
                  RISK_SCORE |-> Number(ValueOf(items, Col_RISK_SCORE)),
                  WEEK_START_DATE |-> Number(ValueOf(items, Col_WEEK_START_DATE))])

\* con.execute(merge_sql) (line 150) up to the row of the USING subquery:
\* it raises when the text holds a bind parameter, for which no value is
\* given, and when the warehouse cannot read what is sent.
UsingSubquery(stmt) ==
    IF HasBindParam(stmt) THEN Raises
    ELSE LET toks == Lex(Unescaped(stmt), 1)
         IN  IF toks = Raises THEN Raises
             ELSE LET items == SelectItems(toks[1], 1)
                  IN  IF items = Raises THEN Raises ELSE UsingRow(items[1])

Executes(stmt) == UsingSubquery(stmt) # Raises
\* The row of the USING subquery of a statement that executes.
MergeSource(stmt) == UsingSubquery(stmt)[1]

\* The statements the form can build on these tables, each with what
\* con.execute makes of it.
QueueEntries == {QueueColumns(s) : s \in UNION {tables[1] : tables \in InitialTables}}
Statements ==
    [details \in QueueEntries, status \in StatusOptions \cup {NoStatus},
     notes \in {in[2] : in \in FormInputs},
     current_user \in {Escape(SessionUser(s)) : s \in Sessions} |->
        LET stmt == merge_sql(details, status, notes, current_user)
        IN  IF Executes(stmt) THEN Returns(MergeSource(stmt)) ELSE Raises]
con_execute(details, status, notes, current_user) ==
    Statements[details, status, notes, current_user]

\* ON t.MERCHANT_DESCRIPTION = s.MERCHANT_DESCRIPTION AND t.WEEK_START_DATE = s.WEEK_START_DATE
MergeOn(t, s) ==
    /\ t.MERCHANT_DESCRIPTION = s.MERCHANT_DESCRIPTION
    /\ t.WEEK_START_DATE = s.WEEK_START_DATE

\* WHEN MATCHED THEN UPDATE SET ...
MergeUpdate(t, s, clock) ==
    [t EXCEPT !.STATUS = s.STATUS, !.NOTES = s.NOTES, !.REVIEWER = s.REVIEWER,
              !.REVIEW_DATE = NotNull(clock)]

\* WHEN NOT MATCHED THEN INSERT (...) VALUES (...): REVIEW_DATE is not in the
\* column list.
MergeInsert(s) ==
    ReviewRow(s.MERCHANT_DESCRIPTION, s.WEEK_START_DATE, s.STATUS, s.NOTES,
              s.REVIEWER, s.RISK_SCORE, NULL)

\* The MERGE statement and its commit: one atomic change of the table.
Merge(review, s, clock) ==
    LET matched == {t \in review : MergeOn(t, s)}
    IN  IF matched # {}
        THEN (review \ matched) \cup {MergeUpdate(t, s, clock) : t \in matched}
        ELSE review \cup {MergeInsert(s)}


\* ------------------------------------------------------------ state
VARIABLES
    riskScores,     \* MERCHANT_RISK_SCORES
    reviewStatus,   \* MERCHANT_REVIEW_STATUS
    now,            \* the warehouse clock, in ticks
    monitorCache,   \* per instance: the memo of load_monitoring_data (ttl=600)
    queueCache,     \* per instance: the memo of load_review_queue (no ttl)
    pc,             \* per instance: where its run of the script stands
    rerun,          \* per instance: st.rerun() was called, the script runs again
    message,        \* per instance: what the last run of the form showed
    merges,         \* calls of con.execute(merge_sql) so far
    lastCommit      \* per key reviewed in this run: the submission committed last

vars == <<riskScores, reviewStatus, now, monitorCache, queueCache,
          pc, rerun, message, merges, lastCommit>>

NoMonitorMemo == [cached |-> FALSE, at |-> 0, df |-> <<>>]
NoQueueMemo == [cached |-> FALSE, df |-> <<>>]

\* No run is under way: the page is drawn and waits for the reviewer.
Idle == "idle"
\* A run has passed load_monitoring_data() (line 52) and has not yet called
\* load_review_queue() (line 99).
AtQueue == "line 99"

MsgNone == "none"
MsgSelectStatus == "Please select a status."
MsgUpdated == "Status updated"
MsgError == "An error occurred during app startup:"

Init ==
    /\ \E tables \in InitialTables :
           /\ riskScores = tables[1]
           /\ reviewStatus = tables[2]
    /\ now = 0
    /\ monitorCache = [s \in Sessions |-> NoMonitorMemo]
    /\ queueCache = [s \in Sessions |-> NoQueueMemo]
    /\ pc = [s \in Sessions |-> Idle]
    /\ rerun = [s \in Sessions |-> FALSE]
    /\ message = [s \in Sessions |-> MsgNone]
    /\ merges = 0
    /\ lastCommit = <<>>

\* ------------------------------------------------------------ st.cache_data
\* @st.cache_data(ttl=600): an entry older than the ttl is not used.
MonitorHit(memo, clock) ==
    /\ memo.cached
    /\ (clock - memo.at) * SecondsPerDay < TtlSeconds * TicksPerDay

\* monitor_df = load_monitoring_data() (line 52), through its memo.
MonitorAfterCall(memo, review, clock) ==
    IF MonitorHit(memo, clock) THEN memo
    ELSE [cached |-> TRUE, at |-> clock, df |-> load_monitoring_data(review)]

\* review_df = load_review_queue() (line 99), through its memo: the memos
\* this call can leave.
QueueAfterCall(memo, risk, review, clock) ==
    IF memo.cached THEN {memo}
    ELSE {[cached |-> TRUE, df |-> df] : df \in load_review_queue(risk, review, clock)}

\* st.cache_data.clear() (line 155): every memo of the instance.
ClearedMonitor(memo) == NoMonitorMemo
ClearedQueue(memo) == NoQueueMemo

\* ------------------------------------------------------------ runs of the script
\* A run reads the warehouse twice, at line 52 and at line 99, and other
\* instances run and commit in between: each read is a step of its own.

\* A run with no form submitted (the page is opened or a widget changed),
\* up to load_monitoring_data().
PageLoad(s) ==
    /\ pc[s] = Idle
    /\ ~rerun[s]
    /\ monitorCache' = [monitorCache EXCEPT
                          ![s] = MonitorAfterCall(monitorCache[s], reviewStatus, now)]
    /\ pc' = [pc EXCEPT ![s] = AtQueue]
    /\ message' = [message EXCEPT ![s] = MsgNone]
    /\ UNCHANGED <<riskScores, reviewStatus, now, queueCache, rerun, merges, lastCommit>>

\* The run st.rerun() starts (line 156), up to load_monitoring_data().
Rerun(s) ==
    /\ pc[s] = Idle
    /\ rerun[s]
    /\ monitorCache' = [monitorCache EXCEPT
                          ![s] = MonitorAfterCall(monitorCache[s], reviewStatus, now)]
    /\ pc' = [pc EXCEPT ![s] = AtQueue]
    /\ message' = [message EXCEPT ![s] = MsgNone]
    /\ UNCHANGED <<riskScores, reviewStatus, now, queueCache, rerun, merges, lastCommit>>

\* The rest of either run: load_review_queue() and the page below it, with
\* the form when the queue has rows (lines 99-128).
ReviewQueue(s) ==
    /\ pc[s] = AtQueue
    /\ \E memo \in QueueAfterCall(queueCache[s], riskScores, reviewStatus, now) :
           queueCache' = [queueCache EXCEPT ![s] = memo]
    /\ pc' = [pc EXCEPT ![s] = Idle]
    /\ rerun' = [rerun EXCEPT ![s] = FALSE]
    /\ UNCHANGED <<riskScores, reviewStatus, now, monitorCache, message,
                   merges, lastCommit>>

\* The form is on the page: the last run showed a queue with rows.
FormShown(s) ==
    /\ pc[s] = Idle
    /\ ~rerun[s]
    /\ queueCache[s].cached
    /\ queueCache[s].df # <<>>

\* What a commit records for the key of the queue entry that was reviewed:
\* the outcome and the notes the reviewer entered, the reviewer, when it was
\* committed, and what it follows: no commit for the key in this run
\* ("first"), a commit of the same reviewer ("own") or of another ("other").
Commit(status, notes, reviewer, clock, before) ==
    [STATUS |-> status, NOTES |-> notes, REVIEWER |-> reviewer,
     at |-> clock,
     over |-> IF before = <<>> THEN "first"
              ELSE IF before[1].REVIEWER = reviewer THEN "own" ELSE "other"]

KeyOf(row) == <<row.MERCHANT_DESCRIPTION, row.WEEK_START_DATE>>

\* The run a submission starts calls load_review_queue() on a filled memo
\* (the form was drawn from it, and only a write of this instance clears
\* it), so it reads the warehouse once, at line 52, before the form's code.
\* That read and the form's code are one step: the write clears what the
\* read left, and without a write the run leaves what the read alone leaves.

\* Mutant: the form without the test of the outcome, the MERGE runs with
\* the empty status.
SubmitUnchecked(s, selected) ==
    /\ FormShown(s)
    /\ selected \in QueueMerchants(queueCache[s].df)
    /\ LET details == merchant_details(queueCache[s].df, selected)
           result == con_execute(details, NoStatus, NotesNone, Escape(SessionUser(s)))
       IN  reviewStatus' = Merge(reviewStatus, result[1], now)
    /\ merges' = merges + 1
    /\ message' = [message EXCEPT ![s] = MsgUpdated]
    /\ monitorCache' = [monitorCache EXCEPT ![s] = NoMonitorMemo]
    /\ queueCache' = [queueCache EXCEPT ![s] = NoQueueMemo]
    /\ rerun' = [rerun EXCEPT ![s] = TRUE]
    /\ UNCHANGED <<riskScores, now, pc, lastCommit>>

\* "Submit Review" with no outcome chosen (lines 129-131); the notes are
\* not read.
SubmitNoStatus(s, selected) ==
    /\ FormShown(s)
    /\ selected \in QueueMerchants(queueCache[s].df)
    /\ monitorCache' = [monitorCache EXCEPT
                          ![s] = MonitorAfterCall(monitorCache[s], reviewStatus, now)]
    /\ message' = [message EXCEPT ![s] = MsgSelectStatus]
    /\ UNCHANGED <<riskScores, reviewStatus, now, queueCache, pc, rerun,
                   merges, lastCommit>>

\* "Submit Review" with an outcome chosen (lines 132-156).  When
\* con.execute raises, the except clause (lines 158-160) shows the error:
\* nothing is committed, no memo is cleared and the script is not run again.
SubmitReview(s, selected, status, notes) ==
    /\ FormShown(s)
    /\ merges < MaxMerges
    /\ selected \in QueueMerchants(queueCache[s].df)
    /\ merges' = merges + 1
    /\ LET details == merchant_details(queueCache[s].df, selected)
           result == con_execute(details, status, notes, Escape(SessionUser(s)))
           src == result[1]
       IN  IF result # Raises
           THEN /\ reviewStatus' = Merge(reviewStatus, src, now)
                /\ lastCommit' = [k \in DOMAIN lastCommit \cup {KeyOf(details)} |->
                                    IF k = KeyOf(details)
                                    THEN Commit(status, notes, SessionUser(s), now,
                                                IF k \in DOMAIN lastCommit
                                                THEN <<lastCommit[k]>> ELSE <<>>)
                                    ELSE lastCommit[k]]
                /\ message' = [message EXCEPT ![s] = MsgUpdated]
                /\ monitorCache' = [monitorCache EXCEPT
                                      ![s] = ClearedMonitor(monitorCache[s])]
                /\ queueCache' = [queueCache EXCEPT ![s] = ClearedQueue(queueCache[s])]
                /\ rerun' = [rerun EXCEPT ![s] = TRUE]
           ELSE /\ monitorCache' = [monitorCache EXCEPT
                                      ![s] = MonitorAfterCall(monitorCache[s],
                                                              reviewStatus, now)]
                /\ message' = [message EXCEPT ![s] = MsgError]
                /\ UNCHANGED <<reviewStatus, lastCommit, queueCache, rerun>>
    /\ UNCHANGED <<riskScores, now, pc>>

\* The instants at which the steps happen: the start, then ninety days
\* later and a tick after that, and so on.
Instant(i) ==
    DateAddDays(ExpiryDays * (i \div 2), 0) + (IF i > 1 /\ i % 2 = 1 THEN 1 ELSE 0)
Instants == {Instant(i) : i \in 1..MaxInstants}

\* Time passes between two steps: the clock moves to a later instant.
AdvanceClock(t) ==
    /\ t > now
    /\ now' = t
    /\ UNCHANGED <<riskScores, reviewStatus, monitorCache, queueCache, pc, rerun,
                   message, merges, lastCommit>>

Next ==
    \/ \E s \in Sessions : PageLoad(s)
    \/ \E s \in Sessions : Rerun(s)
    \/ \E s \in Sessions : ReviewQueue(s)
    \/ \E s \in Sessions, m \in Merchants : SubmitNoStatus(s, m)
    \/ \E s \in Sessions, m \in Merchants, in \in FormInputs :
           SubmitReview(s, m, in[1], in[2])
    \/ \E t \in Instants : AdvanceClock(t)

Spec == Init /\ [][Next]_vars


\* ------------------------------------------------------------ properties
RowsWithKey(review, k) == {t \in review : KeyOf(t) = k}

\* The key of the queue entry instance s reviews when merchant m is selected.
SubmittedKey(s, m) == KeyOf(merchant_details(queueCache[s].df, m))

\* Every data frame a call of load_review_queue() can return now.
FreshQueues == load_review_queue(riskScores, reviewStatus, now)
Queued(m) == \E df \in FreshQueues : m \in QueueMerchants(df)

HasHighRiskRow(m) ==
    \E x \in riskScores :
        x.MERCHANT_DESCRIPTION = m /\ x.HIGH_RISK_MERCHANT \in {FlagTrue, FlagTRUE}

DayOf(t) == t \div TicksPerDay

\* C1: a submission that is written, for a key that was submitted before (in
\* this run, or by the earlier run that left its row), leaves exactly one
\* row for the key, and the row has the status, the notes, the reviewer and
\* the write time of this second submission.
C1_SecondSubmissionOverwrites ==
    [][\A s \in Sessions, m \in Merchants, in \in FormInputs :
         ( /\ merges' = merges + 1
           /\ SubmitReview(s, m, in[1], in[2])
           /\ message'[s] = MsgUpdated
           /\ \/ SubmittedKey(s, m) \in DOMAIN lastCommit
              \/ RowsWithKey(reviewStatus, SubmittedKey(s, m)) # {} )
         => LET rows == RowsWithKey(reviewStatus', SubmittedKey(s, m))
            IN  /\ Cardinality(rows) = 1
                /\ \A r \in rows :
                     /\ r.STATUS = in[1]
                     /\ r.NOTES = in[2]
                     /\ r.REVIEWER = SessionUser(s)
                     /\ r.REVIEW_DATE = NotNull(now)]_vars

\* The rows of a merchant that carry its greatest review date; rows whose
\* date is unset count only when no row has a date.
MaxReviewDateRows(rows) ==
    LET dated == {r \in rows : r.REVIEW_DATE # NULL}
    IN  IF dated = {} THEN rows
        ELSE {r \in dated : \A o \in dated : r.REVIEW_DATE[1] >= o.REVIEW_DATE[1]}

\* C2: a merchant whose review row of greatest review_date is "Reviewed -
\* Blocked" is in no queue computed from the current tables.
C2_BlockedNeverQueued ==
    \A m \in ReviewedMerchants(reviewStatus) :
        (\A r \in MaxReviewDateRows(ReviewsOf(reviewStatus, m)) : r.STATUS = Blocked)
        => ~Queued(m)

\* C3: a high-risk merchant whose one review is a "Reviewed - Benign"
\* submitted in this run is queued exactly when the submission is ninety
\* days old or older, whichever branch of the MERGE wrote the row.
C3_BenignClearanceExpires ==
    \A k \in DOMAIN lastCommit :
        ( /\ lastCommit[k].STATUS = Benign
          /\ Cardinality(ReviewsOf(reviewStatus, k[1])) = 1
          /\ HasHighRiskRow(k[1]) )
        => \A df \in FreshQueues :
             (k[1] \in QueueMerchants(df))
                <=> (DayOf(lastCommit[k].at) <= DayOf(now) - ExpiryDays)

\* C4: a risk row of a merchant without review rows is in the queue exactly
\* when its flag is true, and a risk row whose flag is not true is in no queue.
C4_NeverReviewedQueuedIffHighRisk ==
    \A df \in FreshQueues : \A x \in riskScores :
        /\ (ReviewsOf(reviewStatus, x.MERCHANT_DESCRIPTION) = {})
              => ((QueueColumns(x) \in SeqRange(df))
                    <=> (x.HIGH_RISK_MERCHANT \in {FlagTrue, FlagTRUE}))
        /\ (x.HIGH_RISK_MERCHANT \notin {FlagTrue, FlagTRUE})
              => (QueueColumns(x) \notin SeqRange(df))

\* An instance shows a queue that holds the never-reviewed O'B, flagged
\* 'TRUE', and not Acme, flagged 'false', which has a pending review.
C4_Witness ==
    \E s \in Sessions :
        /\ queueCache[s].cached
        /\ queueCache[s].df \in FreshQueues
        /\ QueueMerchants(queueCache[s].df) = {OBRIEN}
        /\ ReviewsOf(reviewStatus, OBRIEN) = {}
        /\ ReviewsOf(reviewStatus, ACME) # {}
        /\ \E x \in riskScores :
             x.MERCHANT_DESCRIPTION = ACME /\ x.HIGH_RISK_MERCHANT = FlagFalse

\* C5: a submission with no outcome chosen changes no table, issues no
\* MERGE, clears neither memo, shows "Please select a status." and leaves
\* the form on the page.
C5_NoStatusNoWrite ==
    [][\A s \in Sessions, m \in Merchants :
         SubmitNoStatus(s, m)
         => /\ reviewStatus' = reviewStatus
            /\ riskScores' = riskScores
            /\ merges' = merges
            /\ queueCache' = queueCache
            /\ monitorCache'[s].cached
            /\ MonitorHit(monitorCache[s], now) => monitorCache'[s] = monitorCache[s]
            /\ message'[s] = MsgSelectStatus
            /\ FormShown(s)']_vars

\* An instance shows the validation message after a MERGE was run, and its
\* form is still there.
C5_Witness ==
    \E s \in Sessions :
        /\ message[s] = MsgSelectStatus
        /\ FormShown(s)
        /\ merges > 0

\* C6: a successful submission clears both memos of its instance and starts
\* a new run; that run fills each memo from the tables as they are when it
\* reads them; and when a merchant without review rows is submitted as
\* "Reviewed - Blocked" the table gains one row, for that merchant, and no
\* fresh queue holds it.
C6_WriteInvalidatesMemos ==
    [][/\ \A s \in Sessions, m \in Merchants, in \in FormInputs :
            ( /\ merges' = merges + 1
              /\ SubmitReview(s, m, in[1], in[2])
              /\ message'[s] = MsgUpdated )
            => /\ ~queueCache'[s].cached
               /\ ~monitorCache'[s].cached
               /\ rerun'[s]
               /\ (in[1] = Blocked /\ ReviewsOf(reviewStatus, m) = {})
                    => /\ Cardinality(reviewStatus') = Cardinality(reviewStatus) + 1
                       /\ \A r \in reviewStatus' \ reviewStatus :
                            r.MERCHANT_DESCRIPTION = m /\ r.STATUS = Blocked
                       /\ \A df \in load_review_queue(riskScores', reviewStatus', now') :
                            m \notin QueueMerchants(df)
       /\ \A s \in Sessions :
            /\ Rerun(s)
               => /\ monitorCache'[s].cached
                  /\ monitorCache'[s].df = load_monitoring_data(reviewStatus')
            /\ (rerun[s] /\ ReviewQueue(s))
               => /\ queueCache'[s].cached
                  /\ queueCache'[s].df
                       \in load_review_queue(riskScores', reviewStatus', now')]_vars

\* C7: the row of a key written in this run has the write time of the
\* submission committed last as its review_date.
C7_ReviewDateIsWriteTime ==
    \A k \in DOMAIN lastCommit :
        \A r \in RowsWithKey(reviewStatus, k) :
            r.REVIEW_DATE = NotNull(lastCommit[k].at)

\* C8: a successful submission leaves every row with another key as it was
\* and one row with the key of the reviewed queue entry, created when the
\* key had no row; no step changes MERCHANT_RISK_SCORES.
C8_OnlyTheSubmittedRow ==
    [][/\ riskScores' = riskScores
       /\ \A s \in Sessions, m \in Merchants, in \in FormInputs :
            ( /\ merges' = merges + 1
              /\ SubmitReview(s, m, in[1], in[2])
              /\ message'[s] = MsgUpdated )
            => LET k == SubmittedKey(s, m)
               IN  /\ {t \in reviewStatus' : KeyOf(t) # k}
                         = {t \in reviewStatus : KeyOf(t) # k}
                   /\ Cardinality(RowsWithKey(reviewStatus', k)) = 1
                   /\ Cardinality(reviewStatus') =
                         IF RowsWithKey(reviewStatus, k) = {}
                         THEN Cardinality(reviewStatus) + 1
                         ELSE Cardinality(reviewStatus)]_vars

\* C9: whatever the order in which the instances commit, no key has two
\* rows, and a key that two reviewers have submitted in this run, one after
\* the other, has exactly one row, with the status, the notes and the
\* reviewer of the submission committed last.
C9_LastWriteWins ==
    /\ \A t \in reviewStatus : Cardinality(RowsWithKey(reviewStatus, KeyOf(t))) = 1
    /\ \A k \in DOMAIN lastCommit :
         lastCommit[k].over = "other"
         => /\ Cardinality(RowsWithKey(reviewStatus, k)) = 1
            /\ \A r \in RowsWithKey(reviewStatus, k) :
                 /\ r.STATUS = lastCommit[k].STATUS
                 /\ r.NOTES = lastCommit[k].NOTES
                 /\ r.REVIEWER = lastCommit[k].REVIEWER

\* The row that latest_reviews keeps for the merchant is "Reviewed - Blocked".
LatestBlocked(review, m) ==
    /\ ReviewsOf(review, m) # {}
    /\ \A r \in FirstByReviewDateDesc(ReviewsOf(review, m)) : r.STATUS = Blocked

\* C10: once the latest review of a merchant is "Reviewed - Blocked", no
\* step changes that, and no step brings the merchant into a fresh queue.
C10_BlockIsPermanent ==
    [][\A m \in Merchants :
         LatestBlocked(reviewStatus, m)
         => /\ LatestBlocked(reviewStatus', m)
            /\ \A df \in load_review_queue(riskScores', reviewStatus', now') :
                 m \notin QueueMerchants(df)]_vars

====
